---- MODULE Spec2Model ----
(***************************************************************************)
(* Model of spinoff's Node (src/spinoff/actor/node.py): lookup, outgoing   *)
(* send, incoming dispatch, node watching, dead-letter reporting and stop. *)
(* The Guardian, the Hub, Ref.tell and the envelope codec are external     *)
(* collaborators of node.py; they are modelled from their contracts.       *)
(***************************************************************************)
EXTENDS Naturals, Sequences, FiniteSets, TLC

\* ------------------------------------------------------------------ bounds
MaxSends == 2        \* send_message calls made by callers (replies are extra)
MaxLog == 1          \* mailbox length from which no node-down signal comes

\* ------------------------------------------------------------------ values
None == "None"
Nodes == {"A", "B"}                  \* Node instances, named by their nid
Names == {"worker", "w"}             \* actor names under a guardian

\* An address string is a sequence of tokens: an optional node id, then the
\* path, "/"-delimited.
AbsPath(name) == <<"/", name>>
RelPath(name) == <<name>>
Paths == {AbsPath(nm) : nm \in Names}

Uri(node, path) == [node |-> node, path |-> path]

\* Uri.parse: a leading node id, when there is one, is the uri's node.
UriParse(addr) ==
    IF addr # <<>> /\ addr[1] \in Nodes
    THEN Uri(addr[1], Tail(addr))
    ELSE Uri(None, addr)

\* str(uri): the node id, when set, followed by the path.
UriRender(uri) == (IF uri.node = None THEN <<>> ELSE <<uri.node>>) \o uri.path

\* uri.root: truthy for a rooted (absolute) path.
UriRoot(uri) == uri.path # <<>> /\ uri.path[1] = "/"

Ref(cell, uri, is_local, node) ==
    [cell |-> cell, uri |-> uri, is_local |-> is_local, node |-> node]

NoRef == Ref(None, Uri(None, <<>>), TRUE, None)

IsRef(v) == DOMAIN v = {"cell", "uri", "is_local", "node"}

\* pattern == message for a pattern (tag, ANY): a 2-tuple with that tag.
Matches(tag, message) == Len(message) = 2 /\ message[1] = tag

\* ------------------------------------------------------------------- state
VARIABLES
    guardian,   \* [Nodes -> {"live", None}]: Node.guardian
    cells,      \* [Nodes -> SUBSET Names]: the cells of the node's guardian
    hub,        \* [Nodes -> {"live", None}]: Node._hub
    stopPc,     \* [Nodes -> {"idle", "hub"}]: where a stop() call stands
    stopped,    \* [Nodes -> BOOLEAN]: a stop() call has returned normally
    outbox,     \* [Nodes -> Seq(_Msg)]: handed to the hub, not yet transmitted
    watches,    \* [Nodes -> SUBSET (Nodes \X Ref)]: the hub's node watchers
    events,     \* Events.log: the process-wide event log
    mailbox,    \* every cell.receive call, in order
    sends,      \* send_message calls made by callers so far
    wanted,     \* [Nodes -> SUBSET (Nodes \X Ref)]: node watches callers hold
    dropped,    \* [Nodes -> SUBSET (Nodes \X Ref)]: node watches callers gave up
    last        \* the last call: its arguments, outcome and effects

vars == <<guardian, cells, hub, stopPc, stopped, outbox, watches, events,
          mailbox, sends, wanted, dropped, last>>

\* What one call did: events logged, Ref.tell calls made, cell.receive calls
\* made, messages handed to the hub.
Eff(outcome, emitted, told, received, sent) ==
    [outcome |-> outcome, emitted |-> emitted, told |-> told,
     received |-> received, sent |-> sent]

NoEff(outcome) == Eff(outcome, <<>>, <<>>, <<>>, <<>>)

\* ---------------------------------------------------------------- Guardian
\* Guardian(uri=self._uri, node=self): the guardian's tree is rooted at the
\* node's own uri, so the refs it hands out carry the node's id.
GuardianLookupCell(n, uri) ==
    IF Len(uri.path) = 2 /\ uri.path[1] = "/" /\ uri.path[2] \in cells[n]
    THEN uri.path[2]
    ELSE None

GuardianLookupRef(n, uri) ==
    LET cell == GuardianLookupCell(n, uri) IN
    IF cell = None
    THEN [outcome |-> "LookupFailed", ref |-> NoRef]
    ELSE [outcome |-> "ok", ref |-> Ref(cell, Uri(n, uri.path), TRUE, None)]

\* --------------------------------------------------------------------- Node
\* Faulty variants of LookupExceptFilter: the condition inverted; LookupFailed
\* caught whatever the uri.
LookupExceptFilterInverted(uri) == IF uri.node = None THEN "LookupFailed" ELSE None

LookupExceptFilterAlways(uri) == "LookupFailed"

\* The exception class the except clause of Node.lookup names: LookupFailed
\* when the uri carries a node, None (which catches nothing) when it does not.
LookupExceptFilter(uri) == IF uri.node # None THEN "LookupFailed" ELSE None

\* Faulty variants of Lookup: a relative foreign uri is not refused; the ref to
\* a foreign uri is built local; the dead ref to a local uri is bound to the
\* node.
LookupNoRootCheck(n, uri) ==
    IF uri.node = None \/ uri.node = n
    THEN IF guardian[n] = None
         THEN [outcome |-> "AttributeError", ref |-> NoRef, consulted |-> FALSE]
         ELSE LET r == GuardianLookupRef(n, uri) IN
              IF r.outcome = "ok"
              THEN [outcome |-> "ok", ref |-> r.ref, consulted |-> TRUE]
              ELSE IF r.outcome = LookupExceptFilter(uri)
              THEN [outcome |-> "ok", ref |-> Ref(None, uri, TRUE, None),
                    consulted |-> TRUE]
              ELSE [outcome |-> r.outcome, ref |-> NoRef, consulted |-> TRUE]
    ELSE [outcome |-> "ok", ref |-> Ref(None, uri, FALSE, n), consulted |-> FALSE]

LookupForeignLocal(n, uri) ==
    IF uri.node = None \/ uri.node = n
    THEN IF guardian[n] = None
         THEN [outcome |-> "AttributeError", ref |-> NoRef, consulted |-> FALSE]
         ELSE LET r == GuardianLookupRef(n, uri) IN
              IF r.outcome = "ok"
              THEN [outcome |-> "ok", ref |-> r.ref, consulted |-> TRUE]
              ELSE IF r.outcome = LookupExceptFilter(uri)
              THEN [outcome |-> "ok", ref |-> Ref(None, uri, TRUE, None),
                    consulted |-> TRUE]
              ELSE [outcome |-> r.outcome, ref |-> NoRef, consulted |-> TRUE]
    ELSE IF ~UriRoot(uri)
    THEN [outcome |-> "TypeError", ref |-> NoRef, consulted |-> FALSE]
    ELSE [outcome |-> "ok", ref |-> Ref(None, uri, TRUE, None), consulted |-> FALSE]

LookupDeadRefBound(n, uri) ==
    IF uri.node = None \/ uri.node = n
    THEN IF guardian[n] = None
         THEN [outcome |-> "AttributeError", ref |-> NoRef, consulted |-> FALSE]
         ELSE LET r == GuardianLookupRef(n, uri) IN
              IF r.outcome = "ok"
              THEN [outcome |-> "ok", ref |-> r.ref, consulted |-> TRUE]
              ELSE IF r.outcome = LookupExceptFilter(uri)
              THEN [outcome |-> "ok", ref |-> Ref(None, uri, TRUE, n),
                    consulted |-> TRUE]
              ELSE [outcome |-> r.outcome, ref |-> NoRef, consulted |-> TRUE]
    ELSE IF ~UriRoot(uri)
    THEN [outcome |-> "TypeError", ref |-> NoRef, consulted |-> FALSE]
    ELSE [outcome |-> "ok", ref |-> Ref(None, uri, FALSE, n), consulted |-> FALSE]

\* Node.lookup.  consulted: guardian.lookup_ref was called.  The TypeError of
\* line 49 is the error the specification names InvalidUri.
Lookup(n, uri) ==
    IF uri.node = None \/ uri.node = n
    THEN IF guardian[n] = None
         THEN [outcome |-> "AttributeError", ref |-> NoRef, consulted |-> FALSE]
         ELSE LET r == GuardianLookupRef(n, uri) IN
              IF r.outcome = "ok"
              THEN [outcome |-> "ok", ref |-> r.ref, consulted |-> TRUE]
              ELSE IF r.outcome = LookupExceptFilter(uri)
              THEN [outcome |-> "ok", ref |-> Ref(None, uri, TRUE, None),
                    consulted |-> TRUE]
              ELSE [outcome |-> r.outcome, ref |-> NoRef, consulted |-> TRUE]
    ELSE IF ~UriRoot(uri)
    THEN [outcome |-> "TypeError", ref |-> NoRef, consulted |-> FALSE]
    ELSE [outcome |-> "ok", ref |-> Ref(None, uri, FALSE, n), consulted |-> FALSE]

\* _Msg(ref, msg), as queued in the hub of node n
Msg(n, ref, msg) == [node |-> n, ref |-> ref, msg |-> msg]

\* Faulty variants of SendMessage: the call fails when the destination node
\* cannot be reached; the message is handed to the hub twice.
SendMessageChecksDestination(n, message, remote_ref) ==
    IF hub[n] = None
    THEN NoEff("AttributeError")
    ELSE IF remote_ref.uri.node \in Nodes /\ hub[remote_ref.uri.node] = None
    THEN NoEff("Unreachable")
    ELSE Eff("ok", <<>>, <<>>, <<>>, <<Msg(n, remote_ref, message)>>)

SendMessageTwice(n, message, remote_ref) ==
    IF hub[n] = None
    THEN NoEff("AttributeError")
    ELSE Eff("ok", <<>>, <<>>, <<>>,
             <<Msg(n, remote_ref, message), Msg(n, remote_ref, message)>>)

\* Node.send_message
SendMessage(n, message, remote_ref) ==
    IF hub[n] = None
    THEN NoEff("AttributeError")
    ELSE Eff("ok", <<>>, <<>>, <<>>, <<Msg(n, remote_ref, message)>>)

\* Ref.tell, called on node n: a live local ref delivers to its cell, a dead
\* local ref does nothing, a remote ref goes through its owning node.
Tell(n, ref, message) ==
    LET told == <<[to |-> ref, msg |-> message]>> IN
    IF ref.is_local
    THEN IF ref.cell # None
         THEN Eff("ok", <<>>, told,
                  <<[node |-> n, cell |-> ref.cell, msg |-> message]>>, <<>>)
         ELSE Eff("ok", <<>>, told, <<>>, <<>>)
    ELSE [SendMessage(ref.node, message, ref) EXCEPT !.told = told]

\* ------------------------------------------------------------- envelope codec
\* A Ref in a message goes over the wire as (str(uri), is_local).
EncodeMessage(message) ==
    IF Len(message) = 2 /\ IsRef(message[2])
    THEN <<message[1],
           [uri |-> UriRender(message[2].uri), is_local |-> message[2].is_local]>>
    ELSE message

IsMarker(v) == DOMAIN v = {"uri", "is_local"}

\* _Msg.serialize
Serialize(m) == [path |-> m.ref.uri.path, msg |-> EncodeMessage(m.msg)]

\* Bytes that are not a serialized envelope.
CorruptBytes == [garbage |-> TRUE]

\* IncomingMessageUnpickler(node, bytes).load(): bytes that are no envelope
\* fail to decode; a Ref marker is looked up again on the receiving node.
Decode(n, bytes) ==
    IF "msg" \notin DOMAIN bytes
    THEN [outcome |-> "CorruptEnvelope", path |-> <<>>, message |-> <<>>]
    ELSE IF Len(bytes.msg) = 2 /\ IsMarker(bytes.msg[2])
    THEN LET r == Lookup(n, UriParse(bytes.msg[2].uri)) IN
         [outcome |-> r.outcome, path |-> bytes.path,
          message |-> <<bytes.msg[1], r.ref>>]
    ELSE [outcome |-> "ok", path |-> bytes.path, message |-> bytes.msg]

\* ------------------------------------------------------------- dead letters
RemoteDeadLetter(n, ref, msg, from) ==
    [kind |-> "RemoteDeadLetter", node |-> n, ref |-> ref, msg |-> msg,
     from |-> from]

DeadLetter(n, ref, msg) ==
    [kind |-> "DeadLetter", node |-> n, ref |-> ref, msg |-> msg, from |-> None]

\* Faulty variant of NodeRemoteDeadLetter: the ref built from the path alone.
NodeRemoteDeadLetterBareUri(n, path, msg, from) ==
    LET ref == Ref(None, UriParse(path), TRUE, None) IN
    IF ~(Matches("_unwatched", msg) \/ Matches("_watched", msg))
    THEN <<RemoteDeadLetter(n, ref, msg, from)>>
    ELSE <<>>

\* Node._remote_dead_letter: the events it logs
NodeRemoteDeadLetter(n, path, msg, from) ==
    LET ref == Ref(None, UriParse(<<n>> \o path), TRUE, None) IN
    IF ~(Matches("_unwatched", msg) \/ Matches("_watched", msg))
    THEN <<RemoteDeadLetter(n, ref, msg, from)>>
    ELSE <<>>

\* Faulty variants of MsgSendFailed: no message is exempt; 'terminated' is
\* exempt as well.
MsgSendFailedLogsAll(m) == <<DeadLetter(m.node, m.ref, m.msg)>>

MsgSendFailedDropsTerminated(m) ==
    IF ~(\E tag \in {"terminated", "_unwatched", "_watched"} : Matches(tag, m.msg))
    THEN <<DeadLetter(m.node, m.ref, m.msg)>>
    ELSE <<>>

\* _Msg.send_failed: the events it logs
MsgSendFailed(m) ==
    IF ~(Matches("_unwatched", m.msg) \/ Matches("_watched", m.msg))
    THEN <<DeadLetter(m.node, m.ref, m.msg)>>
    ELSE <<>>

\* Faulty variants of OnReceiveNoCell: without the branch that drops the
\* protocol messages; with that branch tested first.
OnReceiveNoCellNoDrop(n, sender_nid, local_path, message) ==
    IF Matches("_watched", message)
    THEN LET watched_ref == Ref(None, UriParse(<<n>> \o local_path), TRUE, None)
             watcher == message[2]
         IN  Tell(n, watcher, <<"terminated", watched_ref>>)
    ELSE Eff("ok", NodeRemoteDeadLetter(n, local_path, message, sender_nid),
             <<>>, <<>>, <<>>)

OnReceiveNoCellDropFirst(n, sender_nid, local_path, message) ==
    IF \E tag \in {"terminated", "_watched", "_unwatched"} : Matches(tag, message)
    THEN NoEff("ok")
    ELSE IF Matches("_watched", message)
    THEN LET watched_ref == Ref(None, UriParse(<<n>> \o local_path), TRUE, None)
             watcher == message[2]
         IN  Tell(n, watcher, <<"terminated", watched_ref>>)
    ELSE Eff("ok", NodeRemoteDeadLetter(n, local_path, message, sender_nid),
             <<>>, <<>>, <<>>)

\* Faulty variant of OnReceiveNoCell: a 'terminated' for a missing cell is
\* answered like a watch request.
OnReceiveNoCellEchoes(n, sender_nid, local_path, message) ==
    IF Matches("_watched", message) \/ Matches("terminated", message)
    THEN LET watched_ref == Ref(None, UriParse(<<n>> \o local_path), TRUE, None)
             watcher == message[2]
         IN  Tell(n, watcher, <<"terminated", watched_ref>>)
    ELSE IF \E tag \in {"terminated", "_watched", "_unwatched"} :
                Matches(tag, message)
    THEN NoEff("ok")
    ELSE Eff("ok", NodeRemoteDeadLetter(n, local_path, message, sender_nid),
             <<>>, <<>>, <<>>)

\* The branch of Node._on_receive for a destination with no cell.
OnReceiveNoCell(n, sender_nid, local_path, message) ==
    IF Matches("_watched", message)
    THEN LET watched_ref == Ref(None, UriParse(<<n>> \o local_path), TRUE, None)
             watcher == message[2]
         IN  Tell(n, watcher, <<"terminated", watched_ref>>)
    ELSE IF \E tag \in {"terminated", "_watched", "_unwatched"} :
                Matches(tag, message)
    THEN NoEff("ok")
    ELSE Eff("ok", NodeRemoteDeadLetter(n, local_path, message, sender_nid),
             <<>>, <<>>, <<>>)

\* Faulty variant of OnReceive: the watch request answered before the cell is
\* looked at.
OnReceiveWatchFirst(n, sender_nid, msg_bytes) ==
    LET d == Decode(n, msg_bytes) IN
    IF d.outcome # "ok" THEN NoEff(d.outcome)
    ELSE IF guardian[n] = None THEN NoEff("AttributeError")
    ELSE LET cell == GuardianLookupCell(n, UriParse(d.path)) IN
         IF cell = None \/ Matches("_watched", d.message)
         THEN OnReceiveNoCell(n, sender_nid, d.path, d.message)
         ELSE Eff("ok", <<>>, <<>>,
                  <<[node |-> n, cell |-> cell, msg |-> d.message]>>, <<>>)

\* Node._on_receive
OnReceive(n, sender_nid, msg_bytes) ==
    LET d == Decode(n, msg_bytes) IN
    IF d.outcome # "ok" THEN NoEff(d.outcome)
    ELSE IF guardian[n] = None THEN NoEff("AttributeError")
    ELSE LET cell == GuardianLookupCell(n, UriParse(d.path)) IN
         IF cell = None
         THEN OnReceiveNoCell(n, sender_nid, d.path, d.message)
         ELSE Eff("ok", <<>>, <<>>,
                  <<[node |-> n, cell |-> cell, msg |-> d.message]>>, <<>>)

\* The on_node_down callback Node.__init__ hands to the Hub.
OnNodeDown(n, ref, nid) == Tell(n, ref, <<"_node_down", [nid |-> nid]>>)

\* ------------------------------------------------------------------ inputs
\* The uris callers look up: rooted and relative, with and without a node.
LookupUris ==
    {Uri(nd, p) : nd \in Nodes \cup {None}, p \in Paths \cup {RelPath("worker")}}

\* The refs a caller on node n holds: what n.lookup returns.
HeldRefs(n) ==
    {Lookup(n, u).ref : u \in {v \in LookupUris : Lookup(n, v).outcome = "ok"}}

\* The scenario of the messaging specification: callers on node A send to
\* the actor "worker" of node B, and the actor "w", on A or on B, watches.
Senders == {"A"}
Actors == {<<"A", "w">>, <<"B", "worker">>, <<"B", "w">>}

\* The refs callers send through: the remote refs to "worker".
SendRefs(n) == {r \in HeldRefs(n) : ~r.is_local /\ r.uri.path = AbsPath("worker")}

\* The refs that watch: the refs to the actor named "w", here or elsewhere.
WatcherRefs(n) == {r \in HeldRefs(n) : r.uri.path = AbsPath("w")}

UserMessages(n) ==
    {<<"ping">>} \cup
    {<<tag, w>> : tag \in {"_watched", "_unwatched", "terminated"},
                  w \in WatcherRefs(n)}

\* ----------------------------------------------------------------- actions
NoCall ==
    [op |-> "none", node |-> None, outcome |-> "ok", emitted |-> <<>>,
     told |-> <<>>, received |-> <<>>, sent |-> <<>>, uri |-> Uri(None, <<>>),
     ref |-> NoRef, msg |-> <<>>, path |-> <<>>, sender |-> None,
     hadCell |-> FALSE, wasStopped |-> FALSE, stopCalled |-> FALSE,
     running |-> FALSE, nid |-> None, consulted |-> FALSE]

Call(op, n, eff) ==
    [NoCall EXCEPT !.op = op, !.node = n, !.outcome = eff.outcome,
                   !.emitted = eff.emitted, !.told = eff.told,
                   !.received = eff.received, !.sent = eff.sent,
                   !.wasStopped = stopped[n],
                   !.running = (guardian[n] # None /\ hub[n] # None)]

\* The state after a call with effects eff, the hub queues being q before it.
Apply(eff, q) ==
    /\ events' = events \o eff.emitted
    /\ mailbox' = mailbox \o eff.received
    /\ outbox' = [k \in Nodes |->
                    q[k] \o SelectSeq(eff.sent, LAMBDA m : m.node = k)]

Init ==
    /\ guardian = [n \in Nodes |-> "live"]
    /\ cells = [n \in Nodes |-> {}]
    /\ hub = [n \in Nodes |-> "live"]
    /\ stopPc = [n \in Nodes |-> "idle"]
    /\ stopped = [n \in Nodes |-> FALSE]
    /\ outbox = [n \in Nodes |-> <<>>]
    /\ watches = [n \in Nodes |-> {}]
    /\ wanted = [n \in Nodes |-> {}]
    /\ dropped = [n \in Nodes |-> {}]
    /\ events = <<>>
    /\ mailbox = <<>>
    /\ sends = 0
    /\ last = NoCall

\* Node.spawn: guardian.spawn adds a cell.
Spawn(n, name) ==
    /\ name \notin cells[n]
    /\ guardian[n] # None
    /\ cells' = [cells EXCEPT ![n] = @ \cup {name}]
    /\ last' = Call("spawn", n, NoEff("ok"))
    /\ UNCHANGED <<guardian, hub, stopPc, stopped, outbox, watches, wanted, dropped,
                   events, mailbox, sends>>

\* A caller calls node.lookup(uri).
DoLookup(n, uri) ==
    LET r == Lookup(n, uri) IN
    /\ last' = [Call("lookup", n, NoEff(r.outcome)) EXCEPT
                    !.uri = uri, !.ref = r.ref, !.consulted = r.consulted,
                    !.hadCell = (GuardianLookupCell(n, uri) # None)]
    /\ UNCHANGED <<guardian, cells, hub, stopPc, stopped, outbox, watches,
                   wanted, dropped, events, mailbox, sends>>

\* A caller sends through a remote ref it holds: node.send_message(msg, ref).
DoSendMessage(n, ref, message) ==
    LET eff == SendMessage(n, message, ref) IN
    /\ sends < MaxSends
    /\ sends' = sends + 1
    /\ Apply(eff, outbox)
    /\ last' = [Call("send_message", n, eff) EXCEPT !.ref = ref, !.msg = message]
    /\ UNCHANGED <<guardian, cells, hub, stopPc, stopped, watches, wanted, dropped>>

\* The hub of node n transmits its oldest queued message: the hub of the
\* destination node hands the bytes to that node's _on_receive.
HubTransmit(n) ==
    /\ hub[n] # None
    /\ outbox[n] # <<>>
    /\ LET m == Head(outbox[n])
           dst == m.ref.uri.node
           bytes == Serialize(m)
       IN  /\ dst \in Nodes
           /\ hub[dst] # None
           /\ LET eff == OnReceive(dst, n, bytes)
                  d == Decode(dst, bytes)
              IN  /\ Apply(eff, [outbox EXCEPT ![n] = Tail(@)])
                  /\ last' = [Call("on_receive", dst, eff) EXCEPT
                        !.sender = n, !.path = bytes.path,
                        !.msg = IF d.outcome = "ok" THEN d.message ELSE bytes.msg,
                        !.hadCell =
                            (GuardianLookupCell(dst, UriParse(bytes.path)) # None)]
    /\ UNCHANGED <<guardian, cells, hub, stopPc, stopped, watches, wanted, dropped, sends>>

\* The oldest message queued in the hub of node n reaches the destination
\* node damaged: that node's _on_receive is handed bytes that do not decode.
HubTransmitCorrupt(n) ==
    /\ hub[n] # None
    /\ outbox[n] # <<>>
    /\ LET m == Head(outbox[n])
           dst == m.ref.uri.node
       IN  /\ dst \in Nodes
           /\ hub[dst] # None
           /\ LET eff == OnReceive(dst, n, CorruptBytes) IN
              /\ Apply(eff, [outbox EXCEPT ![n] = Tail(@)])
              /\ last' = [Call("on_receive", dst, eff) EXCEPT !.sender = n]
    /\ UNCHANGED <<guardian, cells, hub, stopPc, stopped, watches, wanted, dropped, sends>>

\* The hub of node n reports that its oldest queued message could not be sent.
HubSendFailed(n) ==
    /\ hub[n] # None
    /\ outbox[n] # <<>>
    /\ LET m == Head(outbox[n])
           eff == Eff("ok", MsgSendFailed(m), <<>>, <<>>, <<>>)
       IN  /\ Apply(eff, [outbox EXCEPT ![n] = Tail(@)])
           /\ last' = [Call("send_failed", n, eff) EXCEPT
                           !.ref = m.ref, !.msg = m.msg]
    /\ UNCHANGED <<guardian, cells, hub, stopPc, stopped, watches, wanted, dropped, sends>>

\* Node.watch_node / Node.unwatch_node: the hub's registrations afterwards.
WatchNode(n, nid, watcher) ==
    IF hub[n] = None
    THEN [outcome |-> "AttributeError", watches |-> watches[n]]
    ELSE [outcome |-> "ok", watches |-> watches[n] \cup {<<nid, watcher>>}]

\* Faulty variant of UnwatchNode: it calls the hub's watch_node.
UnwatchNodeAsWatch(n, nid, watcher) == WatchNode(n, nid, watcher)

UnwatchNode(n, nid, watcher) ==
    IF hub[n] = None
    THEN [outcome |-> "AttributeError", watches |-> watches[n]]
    ELSE [outcome |-> "ok", watches |-> watches[n] \ {<<nid, watcher>>}]

\* The refs that watch nodes: the live local refs a caller on n holds.
NodeWatchers(n) == {r \in HeldRefs(n) : r.is_local /\ r.cell # None}

DoWatchNode(n, nid, watcher) ==
    LET r == WatchNode(n, nid, watcher) IN
    /\ watches' = [watches EXCEPT ![n] = r.watches]
    /\ wanted' = IF r.outcome = "ok"
                 THEN [wanted EXCEPT ![n] = @ \cup {<<nid, watcher>>}]
                 ELSE wanted
    /\ dropped' = IF r.outcome = "ok"
                  THEN [dropped EXCEPT ![n] = @ \ {<<nid, watcher>>}]
                  ELSE dropped
    /\ last' = [Call("watch_node", n, NoEff(r.outcome)) EXCEPT
                    !.nid = nid, !.ref = watcher]
    /\ UNCHANGED <<guardian, cells, hub, stopPc, stopped, outbox, events,
                   mailbox, sends>>

DoUnwatchNode(n, nid, watcher) ==
    LET r == UnwatchNode(n, nid, watcher) IN
    /\ <<nid, watcher>> \in wanted[n]
    /\ watches' = [watches EXCEPT ![n] = r.watches]
    /\ wanted' = IF r.outcome = "ok"
                 THEN [wanted EXCEPT ![n] = @ \ {<<nid, watcher>>}]
                 ELSE wanted
    /\ dropped' = IF r.outcome = "ok"
                  THEN [dropped EXCEPT ![n] = @ \cup {<<nid, watcher>>}]
                  ELSE dropped
    /\ last' = [Call("unwatch_node", n, NoEff(r.outcome)) EXCEPT
                    !.nid = nid, !.ref = watcher]
    /\ UNCHANGED <<guardian, cells, hub, stopPc, stopped, outbox, events,
                   mailbox, sends>>

EffCat(e1, e2) ==
    Eff(IF e1.outcome # "ok" THEN e1.outcome ELSE e2.outcome,
        e1.emitted \o e2.emitted, e1.told \o e2.told,
        e1.received \o e2.received, e1.sent \o e2.sent)

\* The hub calls on_node_down(ref, nid) once for each watcher of nid.
RECURSIVE NotifyWatchers(_, _, _)
NotifyWatchers(n, nid, ws) ==
    IF ws = {} THEN NoEff("ok")
    ELSE LET w == CHOOSE x \in ws : TRUE IN
         EffCat(OnNodeDown(n, w, nid), NotifyWatchers(n, nid, ws \ {w}))

\* The failure detector of n's hub signals that node nid is down.
HubNodeDown(n, nid) ==
    /\ hub[n] # None
    /\ Len(mailbox) < MaxLog
    /\ LET eff == NotifyWatchers(n, nid, {w \in NodeWatchers(n) \cup
                        {x[2] : x \in watches[n]} : <<nid, w>> \in watches[n]})
       IN  /\ Apply(eff, outbox)
           /\ last' = [Call("node_down", n, eff) EXCEPT !.nid = nid]
    /\ UNCHANGED <<guardian, cells, hub, stopPc, stopped, watches, wanted, dropped, sends>>

\* Faulty variant of StopGuardian: guardian.stop() is called and the
\* reference is kept.
StopGuardianKeepsRef(n, fails) ==
    /\ stopPc[n] = "idle"
    /\ ~fails \/ guardian[n] # None
    /\ stopPc' = [stopPc EXCEPT ![n] = IF fails THEN "idle" ELSE "hub"]
    /\ cells' = [cells EXCEPT ![n] = IF fails THEN @ ELSE {}]
    /\ last' = [Call("stop_guardian", n, NoEff(IF fails THEN "StopError" ELSE "ok"))
                EXCEPT !.stopCalled = (guardian[n] # None)]
    /\ UNCHANGED <<guardian, hub, stopped, outbox, watches, wanted, dropped,
                   events, mailbox, sends>>

\* Node.stop, first half: "if guardian: guardian.stop(); guardian = None".
\* stop() runs in two steps, since guardian.stop() and hub.stop() run code of
\* the actors and of the transport, and other calls on the node can come in
\* between.  fails: guardian.stop() raises, which ends the stop() call.
StopGuardian(n, fails) ==
    /\ stopPc[n] = "idle"
    /\ IF guardian[n] # None
       THEN /\ guardian' = [guardian EXCEPT ![n] = IF fails THEN @ ELSE None]
            /\ cells' = [cells EXCEPT ![n] = IF fails THEN @ ELSE {}]
            /\ stopPc' = [stopPc EXCEPT ![n] = IF fails THEN "idle" ELSE "hub"]
            /\ last' = [Call("stop_guardian", n,
                             NoEff(IF fails THEN "StopError" ELSE "ok"))
                        EXCEPT !.stopCalled = TRUE]
       ELSE /\ ~fails
            /\ stopPc' = [stopPc EXCEPT ![n] = "hub"]
            /\ last' = Call("stop_guardian", n, NoEff("ok"))
            /\ UNCHANGED <<guardian, cells>>
    /\ UNCHANGED <<hub, stopped, outbox, watches, wanted, dropped, events, mailbox, sends>>

\* Faulty variant of StopHub: hub.stop() called without testing the reference.
StopHubUnguarded(n, fails) ==
    /\ stopPc[n] = "hub"
    /\ stopPc' = [stopPc EXCEPT ![n] = "idle"]
    /\ IF hub[n] # None
       THEN /\ hub' = [hub EXCEPT ![n] = IF fails THEN @ ELSE None]
            /\ outbox' = [outbox EXCEPT ![n] = IF fails THEN @ ELSE <<>>]
            /\ watches' = [watches EXCEPT ![n] = IF fails THEN @ ELSE {}]
            /\ stopped' = [stopped EXCEPT ![n] = @ \/ ~fails]
            /\ last' = [Call("stop_hub", n,
                             NoEff(IF fails THEN "StopError" ELSE "ok"))
                        EXCEPT !.stopCalled = TRUE]
       ELSE /\ ~fails
            /\ last' = [Call("stop_hub", n, NoEff("AttributeError"))
                        EXCEPT !.stopCalled = TRUE]
            /\ UNCHANGED <<hub, outbox, watches, stopped>>
    /\ UNCHANGED <<guardian, cells, wanted, dropped, events, mailbox, sends>>

\* Node.stop, second half: "if _hub: _hub.stop(); _hub = None", and return.
\* fails: hub.stop() raises.  A stopped hub drops its queue and its watches.
StopHub(n, fails) ==
    /\ stopPc[n] = "hub"
    /\ stopPc' = [stopPc EXCEPT ![n] = "idle"]
    /\ IF hub[n] # None
       THEN /\ hub' = [hub EXCEPT ![n] = IF fails THEN @ ELSE None]
            /\ outbox' = [outbox EXCEPT ![n] = IF fails THEN @ ELSE <<>>]
            /\ watches' = [watches EXCEPT ![n] = IF fails THEN @ ELSE {}]
            /\ stopped' = [stopped EXCEPT ![n] = @ \/ ~fails]
            /\ last' = [Call("stop_hub", n,
                             NoEff(IF fails THEN "StopError" ELSE "ok"))
                        EXCEPT !.stopCalled = TRUE]
       ELSE /\ ~fails
            /\ stopped' = [stopped EXCEPT ![n] = TRUE]
            /\ last' = Call("stop_hub", n, NoEff("ok"))
            /\ UNCHANGED <<hub, outbox, watches>>
    /\ UNCHANGED <<guardian, cells, wanted, dropped, events, mailbox, sends>>

\* Node.stop, as every specification below includes it.
Stop ==
    \/ \E n \in Nodes, fails \in BOOLEAN : StopGuardian(n, fails)
    \/ \E n \in Nodes, fails \in BOOLEAN : StopHub(n, fails)

\* Messaging: sends, the hub's transmissions and failures, and stop().
Next ==
    \/ \E a \in Actors : Spawn(a[1], a[2])
    \/ \E n \in Senders : \E ref \in SendRefs(n), message \in UserMessages(n) :
            DoSendMessage(n, ref, message)
    \/ \E n \in Nodes : HubTransmit(n)
    \/ \E n \in Nodes : HubSendFailed(n)
    \/ Stop

Spec == Init /\ [][Next]_vars

\* Messaging over a transport that can damage envelopes.
NextCorrupt ==
    \/ Next
    \/ \E n \in Nodes : HubTransmitCorrupt(n)

SpecCorrupt == Init /\ [][NextCorrupt]_vars

\* Ordering: callers number the messages they send, in the payload.
NextOrder ==
    \/ \E a \in Actors : Spawn(a[1], a[2])
    \/ \E n \in Senders : \E ref \in SendRefs(n) :
            DoSendMessage(n, ref, <<"ping", [seq |-> sends + 1]>>)
    \/ \E n \in Nodes : HubTransmit(n)
    \/ \E n \in Nodes : HubSendFailed(n)
    \/ Stop

SpecOrder == Init /\ [][NextOrder]_vars

\* The watch handshake: the only messages callers send are watch requests
\* on behalf of a watcher of their own node.
NextHandshake ==
    \/ \E a \in Actors : Spawn(a[1], a[2])
    \/ \E n \in Senders : \E ref \in SendRefs(n) :
          \E w \in {x \in WatcherRefs(n) : x.is_local} :
            DoSendMessage(n, ref, <<"_watched", w>>)
    \/ \E n \in Nodes : HubTransmit(n)
    \/ \E n \in Nodes : HubSendFailed(n)
    \/ Stop

SpecHandshake == Init /\ [][NextHandshake]_vars

\* Lookups, as actors are spawned and the node is stopped.
NextLookup ==
    \/ \E n \in Nodes, name \in Names : Spawn(n, name)
    \/ \E n \in Nodes, uri \in LookupUris : DoLookup(n, uri)
    \/ Stop

SpecLookup == Init /\ [][NextLookup]_vars

\* Node watching, as actors are spawned and the node is stopped.
NextWatch ==
    \/ \E n \in Nodes, name \in Names : Spawn(n, name)
    \/ \E n \in Nodes : \E nid \in Nodes \ {n} : \E w \in NodeWatchers(n) :
            DoWatchNode(n, nid, w)
    \/ \E n \in Nodes : \E nid \in Nodes \ {n} : \E w \in {x[2] : x \in wanted[n]} :
            DoUnwatchNode(n, nid, w)
    \/ \E n \in Nodes : \E nid \in Nodes \ {n} : HubNodeDown(n, nid)
    \/ Stop

SpecWatch == Init /\ [][NextWatch]_vars

\* The refs a peer may embed in a message: any uri, marked local or not on
\* the node that encoded it.
WireRefs == {Ref(None, u, il, None) : u \in LookupUris, il \in BOOLEAN}

\* An envelope whose message embeds ref r reaches node n and is decoded.
DoDecode(n, r) ==
    LET bytes == [path |-> AbsPath("worker"),
                  msg |-> EncodeMessage(<<"_watched", r>>)]
        d == Decode(n, bytes)
    IN  /\ hub[n] # None
        /\ last' = [Call("decode", n, NoEff(d.outcome)) EXCEPT
                        !.uri = r.uri, !.msg = bytes.msg, !.path = d.path,
                        !.ref = d.message[2]]
        /\ UNCHANGED <<guardian, cells, hub, stopPc, stopped, outbox, watches,
                       wanted, dropped, events, mailbox, sends>>

\* The codec: envelopes decoded, as actors are spawned and the node is stopped.
NextCodec ==
    \/ \E n \in Nodes, name \in Names : Spawn(n, name)
    \/ \E n \in Nodes, r \in WireRefs : DoDecode(n, r)
    \/ Stop

SpecCodec == Init /\ [][NextCodec]_vars

\* ------------------------------------------------------------------ claims
ProtocolTags == {"terminated", "_watched", "_unwatched"}

IsProtocolMessage(message) == \E tag \in ProtocolTags : Matches(tag, message)

\* The dead local ref for a path of node n: no cell, and a uri that reads as
\* the node's id followed by the path.
IsDeadRefFor(ref, n, path) ==
    /\ ref.cell = None
    /\ ref.is_local
    /\ ref.node = None
    /\ UriRender(ref.uri) = <<n>> \o path
    /\ ref.uri.node = n

\* The last call was _on_receive on a running node, for a path with no cell.
ReceivedForMissingCell ==
    last.op = "on_receive" /\ last.running /\ ~last.hadCell

\* C1: an ordinary inbound message for a path with no cell makes the
\* receiving node log exactly one RemoteDeadLetter, with a dead local ref for
\* <node id><path>, the message and the sender's node id; no cell receives
\* anything, no one is told anything and nothing is sent.
C1_OrdinaryMissLogsOneRemoteDeadLetter ==
    (ReceivedForMissingCell /\ ~IsProtocolMessage(last.msg)) =>
        /\ last.outcome = "ok"
        /\ Len(last.emitted) = 1
        /\ last.emitted[1].kind = "RemoteDeadLetter"
        /\ last.emitted[1].node = last.node
        /\ IsDeadRefFor(last.emitted[1].ref, last.node, last.path)
        /\ last.emitted[1].msg = last.msg
        /\ last.emitted[1].from = last.sender
        /\ last.received = <<>>
        /\ last.told = <<>>
        /\ last.sent = <<>>

C1_Witness ==
    /\ ReceivedForMissingCell
    /\ last.msg = <<"ping">>
    /\ last.node = "B" /\ last.sender = "A"
    /\ Len(last.emitted) = 1

\* C2: an inbound ('terminated', _), ('_watched', _) or ('_unwatched', _)
\* for a path with no cell never makes the receiving node log an event, dead
\* letter or other, while it handles the message.
C2_ProtocolMissLogsNothing ==
    (last.op = "on_receive" /\ ~last.hadCell /\ IsProtocolMessage(last.msg)) =>
        last.emitted = <<>>

C2_Witness ==
    /\ ReceivedForMissingCell
    /\ Matches("terminated", last.msg)
    /\ last.outcome = "ok"

\* C3: an inbound ('_watched', w) for a path with no cell makes the node tell
\* w, within the handling of that message, exactly one ('terminated', ref),
\* ref being the dead local ref for <node id><path>.
C3_WatchOfMissingCellAnswered ==
    (ReceivedForMissingCell /\ Matches("_watched", last.msg)) =>
        /\ last.outcome = "ok"
        /\ Len(last.told) = 1
        /\ last.told[1].to = last.msg[2]
        /\ Matches("terminated", last.told[1].msg)
        /\ IsDeadRefFor(last.told[1].msg[2], last.node, last.path)

C3_Witness ==
    /\ ReceivedForMissingCell
    /\ Matches("_watched", last.msg)
    /\ ~last.msg[2].is_local
    /\ Len(last.sent) = 1

\* C4: an inbound message for a path with a live cell is handed to that
\* cell's receive exactly once; no event is logged and no 'terminated' is
\* told or sent, whatever the message.
C4_LiveCellReceivesOnce ==
    (last.op = "on_receive" /\ last.hadCell) =>
        /\ last.outcome = "ok"
        /\ last.received =
               <<[node |-> last.node, cell |-> last.path[2], msg |-> last.msg]>>
        /\ last.emitted = <<>>
        /\ last.told = <<>>
        /\ last.sent = <<>>

C4_Witness ==
    /\ last.op = "on_receive" /\ last.hadCell
    /\ Matches("_watched", last.msg)
    /\ Len(last.received) = 1

\* The watchers a caller of node n has registered for node nid and not
\* unregistered since, and those it has unregistered.
WatchersWanted(n, nid) == {x[2] : x \in {y \in wanted[n] : y[1] = nid}}
WatchersDropped(n, nid) == {x[2] : x \in {y \in dropped[n] : y[1] = nid}}

\* C5: when the hub signals that node nid is down, every watcher registered
\* with watch_node(nid, w) and not unregistered since is told
\* ('_node_down', nid) exactly once, and no one else is told anything: a
\* watcher unregistered with unwatch_node before the signal is told nothing.
C5_NodeDownToldOncePerWatch ==
    (last.op = "node_down") =>
        /\ Len(last.told) = Cardinality(WatchersWanted(last.node, last.nid))
        /\ \A w \in WatchersWanted(last.node, last.nid) :
              \E i \in 1..Len(last.told) :
                 /\ last.told[i].to = w
                 /\ last.told[i].msg = <<"_node_down", [nid |-> last.nid]>>
        /\ \A i \in 1..Len(last.told) :
              last.told[i].to \notin WatchersDropped(last.node, last.nid)

C5_Witness ==
    /\ last.op = "node_down"
    /\ Len(last.told) = 1
    /\ Len(last.received) = 1
    /\ WatchersDropped(last.node, last.nid) # {}

\* C6 (as claimed): a lookup or send_message call on a node whose stop() has
\* returned fails with the "node stopped" error.
C6_CallOnStoppedNodeRefused ==
    (last.op \in {"lookup", "send_message"} /\ last.wasStopped) =>
        last.outcome = "NodeStopped"

\* C7: a stop() call on a node whose stop() has already returned raises
\* nothing, calls neither guardian.stop() nor hub.stop(), and changes nothing
\* of the node.
C7_SecondStopIsNoOp ==
    [][\A n \in Nodes :
         (stopped[n] /\ last'.node = n
                     /\ last'.op \in {"stop_guardian", "stop_hub"}) =>
            /\ last'.outcome = "ok"
            /\ ~last'.stopCalled
            /\ guardian' = guardian /\ hub' = hub /\ cells' = cells
            /\ outbox' = outbox /\ watches' = watches
            /\ events' = events /\ mailbox' = mailbox
            /\ stopped' = stopped]_vars

C7_Witness ==
    /\ last.op = "stop_hub"
    /\ last.wasStopped
    /\ last.outcome = "ok"

\* C8 (as claimed): no _on_receive or send_message call, whenever it runs
\* relative to stop(), uses a guardian or hub reference that stop() has cleared.
C8_NoCallUsesClearedReference ==
    (last.op \in {"on_receive", "send_message"}) =>
        last.outcome # "AttributeError"

\* The last call was lookup(uri) on a running node, no actor being at the path.
LookedUpMissing == last.op = "lookup" /\ last.running /\ ~last.hadCell

\* C9: lookup(uri) of a uri that names this node and a path with no actor
\* returns a dead local ref (no cell) with that very uri; LookupFailed does
\* not reach the caller.
C9_LocalMissGivesDeadRef ==
    (LookedUpMissing /\ last.uri.node = last.node) =>
        /\ last.outcome = "ok"
        /\ last.ref.is_local
        /\ last.ref.cell = None
        /\ last.ref.uri = last.uri

C9_Witness ==
    /\ LookedUpMissing
    /\ last.uri = Uri("A", AbsPath("worker")) /\ last.node = "A"
    /\ last.outcome = "ok"

\* C10: lookup(uri) of a uri that carries no node and a path with no actor
\* fails with LookupFailed: no ref is returned, and no other error is raised.
C10_NodelessMissRaisesLookupFailed ==
    (LookedUpMissing /\ last.uri.node = None) =>
        /\ last.outcome = "LookupFailed"
        /\ last.ref = NoRef

C10_Witness ==
    /\ LookedUpMissing
    /\ last.uri = Uri(None, AbsPath("worker"))
    /\ last.outcome = "LookupFailed"

\* The error a lookup of a relative foreign uri fails with: the specification's
\* InvalidUri, raised as a TypeError.
InvalidUri == "TypeError"

\* C11: lookup(uri) of a uri whose node is set and is not this node's id
\* never consults the guardian; for a rooted uri it returns a remote ref
\* (is_local false, no cell) with that uri, bound to this node; for a uri
\* that is not rooted it fails with InvalidUri.
C11_ForeignLookup ==
    (last.op = "lookup" /\ last.uri.node \notin {None, last.node}) =>
        /\ ~last.consulted
        /\ IF UriRoot(last.uri)
           THEN /\ last.outcome = "ok"
                /\ last.ref = Ref(None, last.uri, FALSE, last.node)
           ELSE /\ last.outcome = InvalidUri
                /\ last.ref = NoRef

C11_Witness ==
    /\ last.op = "lookup"
    /\ last.node = "A" /\ last.uri = Uri("B", RelPath("worker"))
    /\ last.outcome = InvalidUri

\* C12: the ref obtained by decoding a ref embedded in a message is local
\* exactly when the embedded uri carries no node or carries the id of the
\* decoding node, whatever the ref's is_local was where it was encoded; the
\* decoded ref has the uri that was embedded.
C12_DecodedLocalityIsTheReceivers ==
    (last.op = "decode" /\ last.outcome = "ok") =>
        /\ last.ref.is_local = (last.uri.node = None \/ last.uri.node = last.node)
        /\ UriRender(last.ref.uri) = UriRender(
               IF last.uri.node = None THEN Uri(last.node, last.uri.path)
               ELSE last.uri)

C12_Witness ==
    /\ last.op = "decode" /\ last.outcome = "ok"
    /\ last.msg[2].is_local /\ ~last.ref.is_local
    /\ last.uri.node = "A" /\ last.node = "B"

\* C13: send_message on a running node never raises, whether the destination
\* node is up or stopped and whether or not the target cell exists: it
\* returns normally, having handed one message to the hub, logged nothing
\* and delivered nothing.  Every event is logged later, by _on_receive on the
\* destination or by send_failed at the sender.
C13_SendNeverRaisesForDelivery ==
    /\ (last.op = "send_message" /\ last.running) =>
          /\ last.outcome = "ok"
          /\ last.sent = <<Msg(last.node, last.ref, last.msg)>>
          /\ last.emitted = <<>>
          /\ last.received = <<>>
    /\ (last.emitted # <<>>) => last.op \in {"on_receive", "send_failed"}

C13_Witness ==
    /\ last.op = "send_message" /\ last.running
    /\ last.outcome = "ok"
    /\ hub[last.ref.uri.node] = None
    /\ last.ref.uri.path[2] \notin cells[last.ref.uri.node]

\* C14: when the hub reports a message unsent, the sending node logs exactly
\* one DeadLetter with the original destination ref and the original
\* message, unless the message is ('_watched', _) or ('_unwatched', _), for
\* which it logs nothing.
C14_SendFailedLogsDeadLetter ==
    (last.op = "send_failed") =>
        /\ last.outcome = "ok"
        /\ last.emitted =
              IF Matches("_watched", last.msg) \/ Matches("_unwatched", last.msg)
              THEN <<>>
              ELSE <<DeadLetter(last.node, last.ref, last.msg)>>
        /\ last.sent = <<>> /\ last.received = <<>> /\ last.told = <<>>

C14_Witness ==
    /\ last.op = "send_failed"
    /\ last.msg = <<"ping">>
    /\ Len(last.emitted) = 1
    /\ events[Len(events)] = DeadLetter("A", last.ref, <<"ping">>)

\* The last call was _on_receive with bytes that are no envelope.
ReceivedCorrupt == last.op = "on_receive" /\ last.path = <<>>

\* C15 (as claimed): _on_receive handed bytes that do not decode drops them:
\* no error leaves _on_receive, no cell receives anything and no event is
\* logged.
C15_CorruptEnvelopeDropped ==
    ReceivedCorrupt =>
        /\ last.outcome = "ok"
        /\ last.received = <<>>
        /\ last.emitted = <<>>

\* The numbers callers gave the messages of a log or queue, in its order.
SeqNos(log) == [i \in 1..Len(log) |-> log[i].msg[2].seq]

Increasing(s) == \A i \in 1..Len(s) : \A j \in 1..Len(s) : i < j => s[i] < s[j]

\* C16: the messages callers of one node send to one destination ref reach
\* the cell's receive, or the event log when there is no cell, in the order
\* they were sent: each at most once, none ahead of one sent before it, and
\* each with the payload it was sent with.
C16_SendOrderKept ==
    /\ Increasing(SeqNos(mailbox))
    /\ Increasing(SeqNos(events))
    /\ \A n \in Nodes : Increasing(SeqNos(outbox[n]))
    /\ \A n \in Nodes : \A i \in 1..Len(outbox[n]) :
          /\ \A j \in 1..Len(mailbox) : SeqNos(mailbox)[j] < SeqNos(outbox[n])[i]
          /\ \A j \in 1..Len(events) : SeqNos(events)[j] < SeqNos(outbox[n])[i]
    /\ \A i \in 1..Len(mailbox) : \A j \in 1..Len(events) :
          SeqNos(mailbox)[i] # SeqNos(events)[j]
    /\ \A i \in 1..Len(mailbox) :
          /\ mailbox[i].msg = <<"ping", [seq |-> SeqNos(mailbox)[i]]>>
          /\ mailbox[i].node = "B" /\ mailbox[i].cell = "worker"
    /\ \A i \in 1..Len(events) :
          events[i].msg = <<"ping", [seq |-> SeqNos(events)[i]]>>

C16_Witness ==
    /\ Len(events) = 1 /\ events[1].kind = "RemoteDeadLetter"
    /\ Len(mailbox) = 1
    /\ SeqNos(events) = <<1>> /\ SeqNos(mailbox) = <<2>>

\* C17: stop() stops and clears the guardian before the hub: in every state,
\* a failure of guardian.stop() or of hub.stop() included, a node whose hub
\* reference is cleared has its guardian reference cleared; hub.stop() is
\* only ever called once the guardian reference is cleared; and when stop()
\* has returned both references are cleared.
C17_GuardianClearedBeforeHub ==
    /\ \A n \in Nodes : hub[n] = None => guardian[n] = None
    /\ \A n \in Nodes : stopped[n] => (guardian[n] = None /\ hub[n] = None)
    /\ (last.op = "stop_hub" /\ last.stopCalled) => guardian[last.node] = None
    /\ (last.op = "stop_guardian" /\ last.outcome = "StopError") =>
           (guardian[last.node] # None /\ hub[last.node] # None)

C17_Witness ==
    /\ last.op = "stop_hub" /\ last.outcome = "StopError"
    /\ guardian[last.node] = None
    /\ hub[last.node] # None

\* The refs the last call made the node construct: the dead and the remote
\* refs a decode looked up, the ref a 'terminated' reply names and the refs
\* of the RemoteDeadLetter events.
BuiltRefs ==
    (IF last.op = "on_receive" /\ last.outcome = "ok" /\ Len(last.msg) = 2
     THEN {r \in {last.msg[2]} : r.cell = None \/ ~r.is_local}
     ELSE {})
    \cup {last.told[i].msg[2] : i \in 1..Len(last.told)}
    \cup {last.emitted[i].ref :
            i \in {k \in 1..Len(last.emitted) :
                      last.emitted[k].kind = "RemoteDeadLetter"}}

\* C18: every ref the node constructs is either remote, bound to the
\* constructing node and with a uri whose node is set and is not that node's
\* id, or local, with no cell and no owning node.
C18_BuiltRefsWellFormed ==
    \A r \in BuiltRefs :
        /\ r.cell = None
        /\ IF r.is_local
           THEN r.node = None
           ELSE r.node = last.node /\ r.uri.node \notin {None, last.node}

C18_Witness ==
    /\ last.op = "on_receive" /\ last.outcome = "ok"
    /\ Matches("_watched", last.msg)
    /\ last.msg[2].is_local /\ last.msg[2].cell = None
    /\ Len(last.told) = 1
    /\ Cardinality(BuiltRefs) = 2

\* C19 (as claimed): a watch handshake never produces a dead-letter event,
\* on either node.
C19_HandshakeLogsNothing == events = <<>>

\* C19: a watch request ('_watched', w), w on the requesting node, that
\* reaches a running node for a path with no cell is answered by exactly one
\* ('terminated', dead_ref) sent back through w; a 'terminated' that arrives
\* is handed to the watcher's cell or dropped, and answered by nothing; and
\* the only event a handshake produces is the DeadLetter the answering node
\* logs when its hub reports the 'terminated' reply unsent: no
\* RemoteDeadLetter, and no event when the reply arrives.
C19_HandshakeQuiesces ==
    /\ (ReceivedForMissingCell /\ Matches("_watched", last.msg)) =>
          /\ ~last.msg[2].is_local
          /\ last.msg[2].uri.node = last.sender
          /\ Len(last.sent) = 1
          /\ last.sent[1].node = last.node
          /\ last.sent[1].ref = last.msg[2]
          /\ Matches("terminated", last.sent[1].msg)
          /\ IsDeadRefFor(last.sent[1].msg[2], last.node, last.path)
          /\ last.emitted = <<>>
    /\ (last.op = "on_receive" /\ Matches("terminated", last.msg)) =>
          /\ last.sent = <<>> /\ last.told = <<>> /\ last.emitted = <<>>
          /\ last.hadCell \/ last.received = <<>>
    /\ \A n \in Nodes : \A i \in 1..Len(outbox[n]) :
          IF n \in Senders
          THEN Matches("_watched", outbox[n][i].msg)
          ELSE Matches("terminated", outbox[n][i].msg)
    /\ \A i \in 1..Len(events) :
          /\ events[i].kind = "DeadLetter"
          /\ events[i].node \notin Senders
          /\ Matches("terminated", events[i].msg)
          /\ events[i].ref.uri.node \in Senders
    /\ (last.emitted # <<>>) => last.op = "send_failed"

C19_Witness ==
    /\ ReceivedForMissingCell
    /\ last.node = "A" /\ last.sender = "B"
    /\ Matches("terminated", last.msg)
    /\ last.outcome = "ok"
    /\ last.received = <<>>
    /\ events = <<>>

\* C20: a ('terminated', _) that arrives for a path with no cell is dropped
\* and logs no event, while a ('terminated', _) the hub reports unsent makes
\* the sending node log one DeadLetter with the destination ref and the
\* message: of the protocol messages, only ('_watched', _) and
\* ('_unwatched', _) are exempt from the DeadLetter of a failed send.
C20_TerminatedOnTheTwoSurfaces ==
    /\ (ReceivedForMissingCell /\ Matches("terminated", last.msg)) =>
          /\ last.outcome = "ok"
          /\ last.emitted = <<>>
          /\ last.received = <<>> /\ last.sent = <<>> /\ last.told = <<>>
    /\ (last.op = "send_failed" /\ IsProtocolMessage(last.msg)) =>
          last.emitted = IF Matches("terminated", last.msg)
                         THEN <<DeadLetter(last.node, last.ref, last.msg)>>
                         ELSE <<>>

C20_Witness ==
    /\ last.op = "send_failed"
    /\ last.node = "B"
    /\ Matches("terminated", last.msg)
    /\ Len(last.emitted) = 1
    /\ last.emitted[1].kind = "DeadLetter"

====
